---- MODULE Spec2Model ----
(***************************************************************************)
(* A model of NeuroSyncAgent (src/agentic_engine.py): the rate-limited     *)
(* caller, the keyword router generate_response, the tools and the         *)
(* conversation memory attached to the general agent; of the conversation  *)
(* store (src/database.py), the session store (src/auth.py), the local     *)
(* fallback (src/local_models.py) and the message handler (src/main.py).   *)
(*                                                                         *)
(* Texts (messages, error texts, responses) are sequences of one-character *)
(* strings, so that lower() and the substring test `t in s` are computed   *)
(* as Python computes them.  Time is the wall clock in whole seconds.      *)
(***************************************************************************)
EXTENDS Integers, Sequences, FiniteSets, TLC

VARIABLES
    now,              \* time.time(), in seconds
    last_api_call,    \* self.last_api_call
    memory,           \* self.memory.chat_memory.messages
    last_invocation,  \* history: start time of the latest wrapped invocation, -1 if none
    obs,              \* history: what the latest generate_response call did
    knowledge_base,   \* self.knowledge_base
    chats_db,         \* chats.db: the conversations and messages tables
    users_db,         \* users.db: the user_sessions table
    utc_now,          \* the stores' CURRENT_TIMESTAMP (UTC), in seconds
    utc_offset,       \* local time minus UTC, in seconds: datetime.now() - utc_now
    session_state,    \* st.session_state
    local_fallback,   \* the LocalModelFallback instance
    last_op           \* history: the latest store, tool or handler operation

agent_vars == <<now, last_api_call, memory, last_invocation, obs>>

vars ==
    <<now, last_api_call, memory, last_invocation, obs, knowledge_base,
      chats_db, users_db, utc_now, utc_offset, session_state, local_fallback,
      last_op>>

----------------------------------------------------------------------------
(* Bounds of the model *)

StartTime == 2      \* the clock when the agent is constructed
MaxTime == 3        \* no call is started and no idle second passes after it
MaxDur == 1         \* a wrapped function takes 0..MaxDur seconds
MaxExchanges == 2   \* exchanges the memory may hold under Spec
MaxWindowed == 11   \* exchanges the memory may hold under SpecMemory
MaxConversations == 2   \* conversations ever created
MaxMessages == 2    \* messages ever stored
MaxStoreTime == 1   \* seconds that pass on the store's clock under SpecDb
MaxUsers == 1       \* users ever registered under SpecAuth
MaxTokens == 2      \* session tokens ever issued under SpecAuth
MaxFacts == 7       \* facts ever added under SpecTools
MaxChatExchanges == 2   \* process_message calls under SpecChat

----------------------------------------------------------------------------
(* Program constants *)

min_call_interval == 2
cooldown == 5
k == 10

roadmap_triggers ==
    << <<"r", "o", "a", "d", "m", "a", "p">>,
       <<"l", "e", "a", "r", "n", "i", "n", "g", " ", "p", "a", "t", "h">>,
       <<"s", "t", "e", "p", " ", "b", "y", " ", "s", "t", "e", "p">>,
       <<"p", "l", "a", "n">>,
       <<"t", "i", "m", "e", "l", "i", "n", "e">> >>

code_triggers ==
    << <<"c", "o", "d", "e">>,
       <<"p", "r", "o", "g", "r", "a", "m">>,
       <<"f", "u", "n", "c", "t", "i", "o", "n">>,
       <<"a", "l", "g", "o", "r", "i", "t", "h", "m">>,
       <<"s", "c", "r", "i", "p", "t">>,
       <<"p", "y", "t", "h", "o", "n">>,
       <<"j", "a", "v", "a", "s", "c", "r", "i", "p", "t">>,
       <<"j", "a", "v", "a">> >>

\* self.tools, in list order (Python indexes it from 0)
tools ==
    << "Web Search", "Wikipedia", "Calculator", "Knowledge Base",
       "Add Knowledge", "Roadmap Generator", "Code Helper" >>

\* what generate_response runs on the general route
agent_run == "agent.run"

quota_message ==
    <<"I", "'", "m", " ", "c", "u", "r", "r", "e", "n", "t", "l", "y", " ",
      "f", "a", "c", "i", "n", "g", " ", "i", "s", "s", "u", "e">>

generic_message ==
    <<"I", " ", "a", "m", " ", "c", "u", "r", "r", "e", "n", "t", "l", "y", " ",
      "f", "a", "c", "i", "n", "g", " ", "i", "s", "s", "u", "e">>

roadmap_failure ==
    <<"I", " ", "c", "o", "u", "l", "d", "n", "'", "t", " ", "g", "e", "n", "e",
      "r", "a", "t", "e", " ", "a", " ", "r", "o", "a", "d", "m", "a", "p", " ",
      "d", "u", "e", " ", "t", "o", " ", "a", "n", " ", "e", "r", "r", "o", "r", ".">>

code_failure ==
    <<"I", " ", "c", "o", "u", "l", "d", "n", "'", "t", " ", "g", "e", "n", "e",
      "r", "a", "t", "e", " ", "c", "o", "d", "e", " ", "d", "u", "e", " ",
      "t", "o", " ", "a", "n", " ", "e", "r", "r", "o", "r", ".">>

----------------------------------------------------------------------------
(* Inputs *)

\* user messages; "Explain" holds the trigger "plan", "Java plan" holds a
\* trigger of each list
Messages ==
    { <<"h", "i">>, <<"H", "I">>,
      <<"p", "l", "a", "n">>, <<"P", "L", "A", "N">>,
      <<"E", "x", "p", "l", "a", "i", "n">>,
      <<"c", "o", "d", "e">>, <<"C", "o", "d", "e">>,
      <<"J", "a", "v", "a", " ", "p", "l", "a", "n">> }

\* texts of the exceptions the remote model raises
Errors ==
    { <<"4", "2", "9">>, <<"Q", "u", "o", "t", "a">>,
      <<"R", "a", "t", "e">>, <<"b", "o", "o", "m">> }

\* texts the remote model returns
Answers == { <<"o", "k">> }

\* what one invocation of the wrapped function does, and how long it takes
Outcomes ==
    [kind : {"ok"}, val : Answers, dur : 0..MaxDur]
        \cup [kind : {"err"}, val : Errors, dur : 0..MaxDur]

----------------------------------------------------------------------------
(* str.lower() and the substring test *)

UpperCase ==
    <<"A", "B", "C", "D", "E", "F", "G", "H", "I", "J", "K", "L", "M",
      "N", "O", "P", "Q", "R", "S", "T", "U", "V", "W", "X", "Y", "Z">>

LowerCase ==
    <<"a", "b", "c", "d", "e", "f", "g", "h", "i", "j", "k", "l", "m",
      "n", "o", "p", "q", "r", "s", "t", "u", "v", "w", "x", "y", "z">>

lower_char(c) ==
    IF \E i \in 1..26 : UpperCase[i] = c
    THEN LowerCase[CHOOSE i \in 1..26 : UpperCase[i] = c]
    ELSE c

lower(s) == [i \in 1..Len(s) |-> lower_char(s[i])]

\* Python's `t in s`
contains(t, s) ==
    \E i \in 1..(Len(s) - Len(t) + 1) : SubSeq(s, i, i + Len(t) - 1) = t

\* any(trigger in message.lower() for trigger in triggers)
any_trigger(triggers, message) ==
    \E i \in 1..Len(triggers) : contains(triggers[i], lower(message))

----------------------------------------------------------------------------
(* The rate-limited caller *)

Return(v) == [kind |-> "return", val |-> v]

Raise(e) == [kind |-> "raise", val |-> e]

\* (variant) every error is taken for a rate-limit error
is_rate_limit_error_any(e) == TRUE

\* the test of the except clause of rate_limited_call
is_rate_limit_error(e) ==
    \/ contains(<<"4", "2", "9">>, e)
    \/ contains(<<"q", "u", "o", "t", "a">>, lower(e))
    \/ contains(<<"r", "a", "t", "e">>, lower(e))

\* the sleep before the first invocation
time_to_wait(current_time, last) ==
    IF current_time - last < min_call_interval
    THEN min_call_interval - (current_time - last)
    ELSE 0

\* (variant) the first error is raised again after the failed retry
retry_raise_first(e, retry_error) == Raise(e)

\* what leaves the inner except clause when the retry raised too
retry_raise(e, retry_error) == Raise(retry_error)

\* self.last_api_call after an invocation that raised
after_failure(last, completion) == last

\* rate_limited_call(func): o1 and o2 are what the first and the second
\* invocation of func do.  The result holds the clock and last_api_call at
\* the end of the call, the invocations made (attempts), the sleeps taken,
\* and what the call returns or raises (rlc; res is what the caller makes
\* of it).
rate_limited_call(current_time, last, o1, o2) ==
    LET wait == time_to_wait(current_time, last)
        t1 == current_time + wait
        e1 == t1 + o1.dur
        t2 == e1 + cooldown
        e2 == t2 + o2.dur
        slept == IF wait > 0
                 THEN <<[at |-> current_time, secs |-> wait]>>
                 ELSE <<>>
        cooled == slept \o <<[at |-> e1, secs |-> cooldown]>>
        a1 == [at |-> t1, outcome |-> o1]
        a2 == [at |-> t2, outcome |-> o2]
        out(t, last_call, attempts, sleeps, res) ==
            [now |-> t, last_api_call |-> last_call, attempts |-> attempts,
             sleeps |-> sleeps, rlc |-> res, res |-> res]
    IN  IF o1.kind = "ok"
        THEN out(e1, e1, <<a1>>, slept, Return(o1.val))
        ELSE IF is_rate_limit_error(o1.val)
        THEN IF o2.kind = "ok"
             THEN out(e2, e2, <<a1, a2>>, cooled, Return(o2.val))
             ELSE out(e2, after_failure(last, e2), <<a1, a2>>, cooled,
                      retry_raise(o1.val, o2.val))
        ELSE out(e1, after_failure(last, e1), <<a1>>, slept, Raise(o1.val))

----------------------------------------------------------------------------
(* The direct tools *)

\* (variant) the tool lets the error through
tool_except_reraise(failure, e) == Raise(e)

\* what a tool returns when its rate_limited_call raised
tool_except(failure, e) == Return(failure)

\* generate_roadmap(query): the remote model's text, or the fixed string
generate_roadmap(current_time, last, o1, o2) ==
    LET r == rate_limited_call(current_time, last, o1, o2)
    IN  IF r.res.kind = "raise"
        THEN [r EXCEPT !.res = tool_except(roadmap_failure, r.res.val)]
        ELSE r

\* code_helper(query)
code_helper(current_time, last, o1, o2) ==
    LET r == rate_limited_call(current_time, last, o1, o2)
    IN  IF r.res.kind = "raise"
        THEN [r EXCEPT !.res = tool_except(code_failure, r.res.val)]
        ELSE r

----------------------------------------------------------------------------
(* The conversation memory *)

\* ConversationBufferWindowMemory.save_context, which Chain.run calls once
\* the agent has produced its output
save_context(messages, input, output) ==
    messages \o << [type |-> "human", content |-> input],
                   [type |-> "ai", content |-> output] >>

\* (variant) the window counts messages, not exchanges: messages[-k:]
window_of_messages(messages) ==
    SubSeq(messages,
           IF Len(messages) > k THEN Len(messages) - k + 1 ELSE 1,
           Len(messages))

\* the window of the memory: messages[-k * 2:] if k > 0 else []
window(messages) ==
    IF k > 0
    THEN SubSeq(messages,
                IF Len(messages) > 2 * k THEN Len(messages) - 2 * k + 1 ELSE 1,
                Len(messages))
    ELSE <<>>

\* get_conversation_history(): the context the general agent is given
get_conversation_history == window(memory)

----------------------------------------------------------------------------
(* The router *)

\* (variant) the code triggers are tested before the roadmap triggers
direct_tool_code_first(message) ==
    IF any_trigger(code_triggers, message) THEN 6
    ELSE IF any_trigger(roadmap_triggers, message) THEN 5
    ELSE -1

\* the index in self.tools of the tool a message is routed to, -1 for the
\* general agent
direct_tool(message) ==
    IF any_trigger(roadmap_triggers, message) THEN 5
    ELSE IF any_trigger(code_triggers, message) THEN 6
    ELSE -1

\* (variant) the except clause raises the error again
except_handler_reraise(error_msg) == Raise(error_msg)

\* (variant) the except clause answers every error alike
except_handler_same(error_msg) == Return(generic_message)

\* the except clause of generate_response
except_handler(error_msg) ==
    IF \/ contains(<<"4", "2", "9">>, error_msg)
       \/ contains(<<"q", "u", "o", "t", "a">>, lower(error_msg))
       \/ contains(<<"r", "a", "t", "e">>, lower(error_msg))
    THEN Return(quota_message)
    ELSE Return(generic_message)

\* generate_response(message) in the state self = [now, last_api_call,
\* memory]; the result holds the state after the call, the function the
\* router invoked with its input, and what the call returns or raises
generate_response(self, message, o1, o2) ==
    LET tool == direct_tool(message)
        fn == IF tool = -1 THEN agent_run ELSE tools[tool + 1]
        r == IF fn = "Roadmap Generator"
                 THEN generate_roadmap(self.now, self.last_api_call, o1, o2)
             ELSE IF fn = "Code Helper"
                 THEN code_helper(self.now, self.last_api_call, o1, o2)
             ELSE rate_limited_call(self.now, self.last_api_call, o1, o2)
    IN  [now |-> r.now,
         last_api_call |-> r.last_api_call,
         memory |-> IF fn = agent_run /\ r.res.kind = "return"
                    THEN save_context(self.memory, message, r.res.val)
                    ELSE self.memory,
         invoked |-> <<[fn |-> fn, input |-> message]>>,
         attempts |-> r.attempts,
         sleeps |-> r.sleeps,
         rlc |-> r.rlc,
         res |-> IF r.res.kind = "raise" THEN except_handler(r.res.val)
                 ELSE r.res]

----------------------------------------------------------------------------
(* The conversation store, src/database.py *)

\* SQL NULL, Python None: written 0, which no AUTOINCREMENT id takes
NULL == 0

\* sqlite3.connect leaves foreign-key enforcement off, and no connection of
\* the repository issues PRAGMA foreign_keys = ON
foreign_keys == FALSE

EmptyChats ==
    [conversations |-> {}, messages |-> <<>>, user_preferences |-> {},
     conv_seq |-> 0, msg_seq |-> 0]

\* what sqlite3 raises when the store cannot serve a statement
OperationalError ==
    <<"d", "a", "t", "a", "b", "a", "s", "e", " ", "i", "s", " ",
      "l", "o", "c", "k", "e", "d">>

\* except Exception as e: raise e
store_except(e) == Raise(e)

\* pattern LIKE text: % matches any run of characters, _ any one character,
\* letters match without regard to case
RECURSIVE like(_, _)
like(pattern, text) ==
    IF pattern = <<>> THEN text = <<>>
    ELSE IF Head(pattern) = "%"
        THEN \/ like(Tail(pattern), text)
             \/ text # <<>> /\ like(pattern, Tail(text))
    ELSE /\ text # <<>>
         /\ \/ Head(pattern) = "_"
            \/ lower_char(Head(pattern)) = lower_char(Head(text))
         /\ like(Tail(pattern), Tail(text))

\* the orders in which ORDER BY key ASC may return the rows S: rows with
\* equal keys come in any order
Orderings(S, key) ==
    { s \in [1..Cardinality(S) -> S] :
        /\ \A i, j \in 1..Cardinality(S) : i < j => s[i] # s[j]
        /\ \A i, j \in 1..Cardinality(S) : i < j => key[s[i]] <= key[s[j]] }

\* create_conversation(user_id, title)
create_conversation(db, ts, user_id, title) ==
    LET id == db.conv_seq + 1
    IN  [db |-> [db EXCEPT
                   !.conversations = @ \cup
                       {[id |-> id, user_id |-> user_id, title |-> title,
                         created_at |-> ts, updated_at |-> ts]},
                   !.conv_seq = id],
         res |-> Return(id)]

\* add_message(conversation_id, role, content): the INSERT, then the UPDATE
\* of the conversation's updated_at
add_message(db, ts, conversation_id, role, content) ==
    LET id == db.msg_seq + 1
        known == \E c \in db.conversations : c.id = conversation_id
    IN  IF foreign_keys /\ ~known
        THEN [db |-> db,
              res |-> Raise(<<"F", "O", "R", "E", "I", "G", "N", " ",
                              "K", "E", "Y">>)]
        ELSE [db |-> [db EXCEPT
                   !.messages = Append(@,
                       [id |-> id, conversation_id |-> conversation_id,
                        role |-> role, content |-> content,
                        timestamp |-> ts, metadata |-> NULL]),
                   !.msg_seq = id,
                   !.conversations =
                       { IF c.id = conversation_id
                         THEN [c EXCEPT !.updated_at = ts] ELSE c : c \in @ }],
              res |-> Return(id)]

\* delete_conversation(conversation_id)
delete_conversation(db, conversation_id) ==
    [db |-> [db EXCEPT
               !.conversations = { c \in @ : c.id # conversation_id },
               !.messages =
                   IF foreign_keys
                   THEN SelectSeq(@, LAMBDA m :
                                        m.conversation_id # conversation_id)
                   ELSE @],
     res |-> Return(NULL)]

\* the row of get_conversation_messages for a message
message_row(m) ==
    [role |-> m.role, content |-> m.content, timestamp |-> m.timestamp,
     metadata |-> m.metadata]

\* get_conversation_messages(conversation_id): the results the SELECT ...
\* ORDER BY timestamp ASC may give
get_conversation_messages(db, conversation_id) ==
    LET rows == { i \in 1..Len(db.messages) :
                    db.messages[i].conversation_id = conversation_id }
        timestamp == [i \in rows |-> db.messages[i].timestamp]
    IN  { [n \in 1..Cardinality(rows) |-> message_row(db.messages[s[n]])] :
            s \in Orderings(rows, timestamp) }

\* the columns search_conversations selects
search_row(c) ==
    [id |-> c.id, title |-> c.title, created_at |-> c.created_at,
     updated_at |-> c.updated_at]

\* the rows of search_conversations: conversations JOIN messages, filtered,
\* DISTINCT
search_rows(db, user_id, query) ==
    LET pattern == <<"%">> \o query \o <<"%">>
        joined == { c \in db.conversations :
                      \E i \in 1..Len(db.messages) :
                          /\ c.id = db.messages[i].conversation_id
                          /\ c.user_id = user_id
                          /\ \/ like(pattern, c.title)
                             \/ like(pattern, db.messages[i].content) }
    IN  { search_row(c) : c \in joined }

\* search_conversations(user_id, query): the results the SELECT DISTINCT ...
\* ORDER BY updated_at DESC may give
search_conversations(db, user_id, query) ==
    LET rows == search_rows(db, user_id, query)
        descending == [c \in rows |-> 0 - c.updated_at]
    IN  Orderings(rows, descending)

\* the preferences a user has when no row says otherwise
default_preferences == [theme |-> "dark", auto_summarize |-> FALSE]

\* get_user_preferences(user_id); fault: the store fails to serve it
get_user_preferences(db, user_id, fault) ==
    LET found == { p \in db.user_preferences : p.user_id = user_id }
    IN  IF fault THEN [db |-> db, res |-> Return(default_preferences)]
        ELSE IF found # {}
            THEN [db |-> db,
                  res |-> Return([theme |-> (CHOOSE p \in found : TRUE).theme,
                                  auto_summarize |->
                                    (CHOOSE p \in found : TRUE).auto_summarize])]
        ELSE [db |-> [db EXCEPT !.user_preferences = @ \cup
                        {[user_id |-> user_id, theme |-> "dark",
                          auto_summarize |-> FALSE]}],
              res |-> Return(default_preferences)]

\* update_user_preferences(user_id, auto_summarize = auto_summarize)
update_user_preferences(db, user_id, auto_summarize, fault) ==
    IF fault THEN [db |-> db, res |-> store_except(OperationalError)]
    ELSE [db |-> [db EXCEPT !.user_preferences =
                    { IF p.user_id = user_id
                      THEN [p EXCEPT !.auto_summarize = auto_summarize]
                      ELSE p : p \in @ }],
          res |-> Return(NULL)]

----------------------------------------------------------------------------
(* The credential and session store, src/auth.py *)

EmptyUsers ==
    [users |-> {}, user_sessions |-> {}, user_seq |-> 0, token_seq |-> 0]

session_days == 7

Day == 24 * 60 * 60

\* the text sqlite3 stores for a datetime and the text of CURRENT_TIMESTAMP:
\* the seconds in a fixed width, then the fraction when it is not zero
timestamp_text(seconds, micro) ==
    IF micro = 0 THEN <<seconds>> ELSE <<seconds, micro>>

\* text a > text b: the first difference decides, a proper prefix is less
RECURSIVE text_greater(_, _)
text_greater(a, b) ==
    IF a = <<>> THEN FALSE
    ELSE IF b = <<>> THEN TRUE
    ELSE IF Head(a) # Head(b) THEN Head(a) > Head(b)
    ELSE text_greater(Tail(a), Tail(b))

\* register_user(username, ...): the username is UNIQUE
register_user(db, username, fault) ==
    IF fault
    THEN [db |-> db,
          res |-> Return([success |-> FALSE,
                          message |-> "Registration error: "])]
    ELSE IF \E u \in db.users : u.username = username
    THEN [db |-> db,
          res |-> Return([success |-> FALSE,
                          message |-> "Username already exists"])]
    ELSE [db |-> [db EXCEPT
                    !.users = @ \cup {[id |-> db.user_seq + 1,
                                       username |-> username]},
                    !.user_seq = @ + 1],
          res |-> Return([success |-> TRUE,
                          message |-> "User registered successfully!"])]

\* get_user_info(user_id)
get_user_info(db, user_id, fault) ==
    LET found == { u \in db.users : u.id = user_id }
    IN  IF fault THEN [db |-> db, res |-> Return(NULL)]
        ELSE IF found = {} THEN [db |-> db, res |-> Return(NULL)]
        ELSE [db |-> db, res |-> Return(CHOOSE u \in found : TRUE)]

\* create_session_token(user_id): local_now and micro are datetime.now(),
\* ts is the CURRENT_TIMESTAMP of created_at; the token is a fresh one
create_session_token(db, local_now, micro, ts, user_id, fault) ==
    LET token == db.token_seq + 1
        expires_at == timestamp_text(local_now + session_days * Day, micro)
    IN  IF fault THEN [db |-> db, res |-> Raise(OperationalError)]
        ELSE [db |-> [db EXCEPT
                        !.user_sessions = @ \cup
                            {[session_token |-> token, user_id |-> user_id,
                              created_at |-> ts, expires_at |-> expires_at]},
                        !.token_seq = token],
              res |-> Return(token)]

\* verify_session_token(token)
verify_session_token(db, ts, token, fault) ==
    LET session == { s \in db.user_sessions :
                       /\ s.session_token = token
                       /\ text_greater(s.expires_at, timestamp_text(ts, 0)) }
    IN  IF fault THEN [db |-> db, res |-> Return(NULL)]
        ELSE IF session # {}
            THEN [db |-> db,
                  res |-> Return((CHOOSE s \in session : TRUE).user_id)]
        ELSE [db |-> db, res |-> Return(NULL)]

\* (variant) the DELETE without its WHERE clause
logout_user_everyone(db, token, fault) ==
    IF fault THEN [db |-> db, res |-> Raise(OperationalError)]
    ELSE [db |-> [db EXCEPT !.user_sessions = {}], res |-> Return(NULL)]

\* logout_user(token)
logout_user(db, token, fault) ==
    IF fault THEN [db |-> db, res |-> Raise(OperationalError)]
    ELSE [db |-> [db EXCEPT !.user_sessions =
                    { s \in @ : s.session_token # token }],
          res |-> Return(NULL)]

----------------------------------------------------------------------------
(* The local fallback, src/local_models.py *)

\* LocalModelFallback(): setup_model loaded the pipeline, or failed to
LocalModelFallback(loaded) == [constructed |-> TRUE, has_local_model |-> loaded]

unavailable_message ==
    <<"I", "'", "m", " ", "c", "u", "r", "r", "e", "n", "t", "l", "y", " ",
      "u", "n", "a", "b", "l", "e", " ", "t", "o", " ", "p", "r", "o", "c",
      "e", "s", "s", " ", "y", "o", "u", "r", " ", "r", "e", "q", "u", "e",
      "s", "t", " ", "d", "u", "e", ".">>

local_error_prefix ==
    <<"I", " ", "e", "n", "c", "o", "u", "n", "t", "e", "r", "e", "d", " ",
      "a", "n", " ", "e", "r", "r", "o", "r", " ", "w", "i", "t", "h", " ",
      "t", "h", "e", " ", "l", "o", "c", "a", "l", " ", "m", "o", "d", "e",
      "l", ":", " ">>

local_error_suffix ==
    <<".", " ", "P", "l", "e", "a", "s", "e", " ", "t", "r", "y", " ", "a",
      "g", "a", "i", "n", " ", "l", "a", "t", "e", "r", ".">>

Digits == <<"0", "1", "2", "3", "4", "5", "6", "7", "8", "9">>

\* str(e) of the ValueError raised by `for role, content, _ in ...` on an
\* entry that is not a triple
unpack_error(entry) ==
    IF Len(entry) > 3
    THEN
        <<"t", "o", "o", " ", "m", "a", "n", "y", " ", "v", "a", "l", "u",
          "e", "s", " ", "t", "o", " ", "u", "n", "p", "a", "c", "k", " ",
          "(", "e", "x", "p", "e", "c", "t", "e", "d", " ", "3", ")">>
    ELSE
        <<"n", "o", "t", " ", "e", "n", "o", "u", "g", "h", " ", "v", "a",
          "l", "u", "e", "s", " ", "t", "o", " ", "u", "n", "p", "a", "c",
          "k", " ", "(", "e", "x", "p", "e", "c", "t", "e", "d", " ", "3",
          ",", " ", "g", "o", "t", " ">>
         \o <<Digits[Len(entry) + 1], ")">>

\* conversation_history[-3:]
last_three(history) ==
    SubSeq(history, IF Len(history) > 3 THEN Len(history) - 2 ELSE 1,
           Len(history))

\* " ".join(parts)
RECURSIVE join(_, _)
join(sep, parts) ==
    IF parts = <<>> THEN <<>>
    ELSE IF Len(parts) = 1 THEN parts[1]
    ELSE parts[1] \o sep \o join(sep, Tail(parts))

\* f"{'User' if role == 'user' else 'Assistant'}: {content}"
history_line(entry) ==
    (IF entry[1] = "user" THEN <<"U", "s", "e", "r">>
     ELSE <<"A", "s", "s", "i", "s", "t", "a", "n", "t">>)
    \o <<":", " ">> \o entry[2]

\* the prompt built from the message and the history
prompt_of(message, history) ==
    LET tail == <<"\n", "U", "s", "e", "r", ":", " ">> \o message
                \o <<"\n", "A", "s", "s", "i", "s", "t", "a", "n", "t", ":">>
        shown == last_three(history)
    IN  IF history # <<>>
        THEN join(<<" ">>, [i \in 1..Len(shown) |-> history_line(shown[i])])
             \o tail
        ELSE Tail(tail)

\* text.replace(old, "") for a non-empty old
RECURSIVE remove(_, _)
remove(text, old) ==
    IF Len(text) < Len(old) THEN text
    ELSE IF SubSeq(text, 1, Len(old)) = old
        THEN remove(SubSeq(text, Len(old) + 1, Len(text)), old)
    ELSE <<Head(text)>> \o remove(Tail(text), old)

Whitespace == {" ", "\n", "\t"}

\* text.strip()
RECURSIVE strip(_)
strip(text) ==
    IF text = <<>> THEN text
    ELSE IF Head(text) \in Whitespace THEN strip(Tail(text))
    ELSE IF text[Len(text)] \in Whitespace
        THEN strip(SubSeq(text, 1, Len(text) - 1))
    ELSE text

\* (variant) the handler lets the error through
local_except_reraise(e) == Raise(e)

\* except Exception as e: return f"I encountered an error ...: {str(e)}. ..."
local_except(e) == Return(local_error_prefix \o e \o local_error_suffix)

\* LocalModelFallback.generate_response(message, conversation_history);
\* generation is what self.model(prompt, ...) does: it continues the prompt
\* or raises
local_generate_response(self, message, history, generation) ==
    LET shown == last_three(history)
        bad == { i \in 1..Len(shown) : Len(shown[i]) # 3 }
        first_bad == CHOOSE i \in bad : \A j \in bad : i <= j
        prompt == prompt_of(message, history)
    IN  IF ~self.has_local_model THEN Return(unavailable_message)
        ELSE IF bad # {} THEN local_except(unpack_error(shown[first_bad]))
        ELSE IF generation.kind = "err" THEN local_except(generation.val)
        ELSE Return(strip(remove(prompt \o generation.val, prompt)))

----------------------------------------------------------------------------
(* The calculator and the knowledge base, src/agentic_engine.py *)

\* the characters the calculator keeps
math_characters ==
    {"0", "1", "2", "3", "4", "5", "6", "7", "8", "9",
     "+", "-", "*", "/", "(", ")", ".", " "}

\* (variant) nothing is removed from the query
clean_nothing(query) == query

\* ''.join(c for c in query if c in '0123456789+-*/(). ')
clean(query) == SelectSeq(query, LAMBDA c : c \in math_characters)

IsDigit(c) == \E i \in 1..10 : Digits[i] = c

DigitValue(c) == (CHOOSE i \in 1..10 : Digits[i] = c) - 1

\* str(n) of an integer
RECURSIVE decimal(_)
decimal(n) ==
    IF n < 0 THEN <<"-">> \o decimal(0 - n)
    ELSE IF n < 10 THEN <<Digits[n + 1]>>
    ELSE decimal(n \div 10) \o <<Digits[(n % 10) + 1]>>

\* the text without its leading spaces
RECURSIVE skip(_)
skip(s) == IF s # <<>> /\ Head(s) = " " THEN skip(Tail(s)) ELSE s

\* the digits a text starts with
RECURSIVE digit_run(_)
digit_run(s) ==
    IF s # <<>> /\ IsDigit(Head(s)) THEN <<Head(s)>> \o digit_run(Tail(s))
    ELSE <<>>

\* the value of a run of digits
RECURSIVE number(_)
number(d) ==
    IF d = <<>> THEN 0
    ELSE 10 * number(SubSeq(d, 1, Len(d) - 1)) + DigitValue(d[Len(d)])

\* a decimal literal may start with 0 only when it is all zeros
literal_ok(d) ==
    Len(d) = 1 \/ d[1] # "0" \/ \A i \in 1..Len(d) : d[i] = "0"

NoParse == [ok |-> FALSE]

Parsed(tree, rest) == [ok |-> TRUE, tree |-> tree, rest |-> rest]

\* Python's grammar for what the kept characters can spell, without
\* ** and // and the point: expr, term, factor, primary with call
\* trailers, atom
RECURSIVE parse_expr(_)
RECURSIVE expr_more(_)
RECURSIVE parse_term(_)
RECURSIVE term_more(_)
RECURSIVE parse_factor(_)
RECURSIVE parse_primary(_)
RECURSIVE trailers(_)
RECURSIVE parse_atom(_)

parse_atom(s) ==
    LET t == skip(s)
        d == digit_run(t)
        inner == parse_expr(Tail(t))
    IN  IF t = <<>> THEN NoParse
        ELSE IF d # <<>>
            THEN IF literal_ok(d)
                 THEN Parsed([t |-> "num", n |-> number(d)],
                             SubSeq(t, Len(d) + 1, Len(t)))
                 ELSE NoParse
        ELSE IF Head(t) = "("
            THEN IF skip(Tail(t)) # <<>> /\ Head(skip(Tail(t))) = ")"
                 THEN Parsed([t |-> "tuple"], Tail(skip(Tail(t))))
                 ELSE IF inner.ok /\ skip(inner.rest) # <<>>
                         /\ Head(skip(inner.rest)) = ")"
                     THEN Parsed(inner.tree, Tail(skip(inner.rest)))
                 ELSE NoParse
        ELSE NoParse

\* p is a parsed primary; a following ( ... ) makes it a call
trailers(p) ==
    LET t == skip(p.rest)
        arg == parse_expr(Tail(t))
    IN  IF t = <<>> \/ Head(t) # "(" THEN p
        ELSE IF skip(Tail(t)) # <<>> /\ Head(skip(Tail(t))) = ")"
            THEN trailers(Parsed([t |-> "call", f |-> p.tree, args |-> <<>>],
                                 Tail(skip(Tail(t)))))
        ELSE IF arg.ok /\ skip(arg.rest) # <<>> /\ Head(skip(arg.rest)) = ")"
            THEN trailers(Parsed([t |-> "call", f |-> p.tree,
                                  args |-> <<arg.tree>>],
                                 Tail(skip(arg.rest))))
        ELSE NoParse

parse_primary(s) ==
    LET a == parse_atom(s) IN IF a.ok THEN trailers(a) ELSE NoParse

parse_factor(s) ==
    LET t == skip(s)
        x == parse_factor(Tail(t))
    IN  IF t # <<>> /\ Head(t) \in {"+", "-"}
        THEN IF x.ok
             THEN Parsed([t |-> "unary", op |-> Head(t), x |-> x.tree], x.rest)
             ELSE NoParse
        ELSE parse_primary(t)

\* p is a parsed term so far; * and / continue it, to the left
term_more(p) ==
    LET t == skip(p.rest)
        y == parse_factor(Tail(t))
    IN  IF t = <<>> \/ Head(t) \notin {"*", "/"} THEN p
        ELSE IF y.ok
            THEN term_more(Parsed([t |-> "binary", op |-> Head(t),
                                   x |-> p.tree, y |-> y.tree], y.rest))
        ELSE NoParse

parse_term(s) ==
    LET f == parse_factor(s) IN IF f.ok THEN term_more(f) ELSE NoParse

\* p is a parsed expression so far; + and - continue it, to the left
expr_more(p) ==
    LET t == skip(p.rest)
        y == parse_term(Tail(t))
    IN  IF t = <<>> \/ Head(t) \notin {"+", "-"} THEN p
        ELSE IF y.ok
            THEN expr_more(Parsed([t |-> "binary", op |-> Head(t),
                                   x |-> p.tree, y |-> y.tree], y.rest))
        ELSE NoParse

parse_expr(s) ==
    LET t == parse_term(s) IN IF t.ok THEN expr_more(t) ELSE NoParse

\* a value of the evaluation: an int, or a float that is a whole number
Value(n, float) == Return([n |-> n, float |-> float])

\* a result this model does not compute: a float that is not a whole
\* number or is a negative zero, a tuple, a power, a floor division
Unmodelled == [kind |-> "unmodelled"]

Abs(n) == IF n < 0 THEN 0 - n ELSE n

\* x / y for whole numbers
true_division(x, y) ==
    IF y.n = 0 THEN Raise("ZeroDivisionError")
    ELSE IF Abs(x.n) % Abs(y.n) # 0 \/ (x.n = 0 /\ y.n < 0) THEN Unmodelled
    ELSE Value((IF (x.n < 0) = (y.n < 0) THEN 1 ELSE 0 - 1)
                 * (Abs(x.n) \div Abs(y.n)), TRUE)

\* x op y
binary(op, x, y) ==
    LET float == x.float \/ y.float
    IN  IF op = "/" THEN true_division(x, y)
        ELSE IF op = "+" THEN Value(x.n + y.n, float)
        ELSE IF op = "-" THEN Value(x.n - y.n, float)
        ELSE IF float /\ x.n * y.n = 0 /\ (x.n < 0 \/ y.n < 0) THEN Unmodelled
        ELSE Value(x.n * y.n, float)

\* the evaluation of a parsed expression, operands left to right
RECURSIVE evaluate(_)
evaluate(tree) ==
    IF tree.t = "num" THEN Value(tree.n, FALSE)
    ELSE IF tree.t = "tuple" THEN Unmodelled
    ELSE IF tree.t = "call"
        THEN LET f == evaluate(tree.f)
                 a == evaluate(tree.args[1])
             IN  IF f.kind # "return" THEN f
                 ELSE IF tree.args # <<>> /\ a.kind # "return" THEN a
                 ELSE Raise("TypeError")
    ELSE IF tree.t = "unary"
        THEN LET x == evaluate(tree.x)
             IN  IF x.kind # "return" THEN x
                 ELSE IF tree.op = "+" THEN x
                 ELSE IF x.val.float /\ x.val.n = 0 THEN Unmodelled
                 ELSE Value(0 - x.val.n, x.val.float)
    ELSE LET x == evaluate(tree.x)
             y == evaluate(tree.y)
         IN  IF x.kind # "return" THEN x
             ELSE IF y.kind # "return" THEN y
             ELSE binary(tree.op, x.val, y.val)

\* eval(text) for a text of the kept characters
py_eval(text) ==
    LET p == parse_expr(text)
    IN  IF \/ contains(<<".">>, text)
           \/ contains(<<"*", "*">>, text)
           \/ contains(<<"/", "/">>, text)
        THEN Unmodelled
        ELSE IF ~p.ok THEN Raise("SyntaxError")
        ELSE IF skip(p.rest) # <<>> THEN Raise("SyntaxError")
        ELSE evaluate(p.tree)

\* str(value)
str_value(v) ==
    IF v.float THEN decimal(v.n) \o <<".", "0">> ELSE decimal(v.n)

calculator_failure ==
    <<"I", " ", "c", "o", "u", "l", "d", "n", "'", "t", " ", "c", "a", "l",
      "c", "u", "l", "a", "t", "e", " ", "t", "h", "a", "t", " ", "e", "x",
      "p", "r", "e", "s", "s", "i", "o", "n", ".", " ", "P", "l", "e", "a",
      "s", "e", " ", "p", "r", "o", "v", "i", "d", "e", " ", "a", " ", "v",
      "a", "l", "i", "d", " ", "m", "a", "t", "h", "e", "m", "a", "t", "i",
      "c", "a", "l", " ", "e", "x", "p", "r", "e", "s", "s", "i", "o", "n",
      ".">>

\* (variant) the calculator lets the error through
calculator_except_reraise(e) == Raise(e)

\* except: return "I couldn't calculate that expression. ..."
calculator_except(e) == Return(calculator_failure)

\* calculator(query)
calculator(query) ==
    LET r == py_eval(clean(query))
    IN  IF r.kind = "raise" THEN calculator_except(r.val)
        ELSE IF r.kind = "return" THEN Return(str_value(r.val))
        ELSE r

recent == 5

no_knowledge ==
    <<"N", "o", " ", "k", "n", "o", "w", "l", "e", "d", "g", "e", " ", "a",
      "v", "a", "i", "l", "a", "b", "l", "e", " ", "y", "e", "t", ".">>

added_prefix ==
    <<"A", "d", "d", "e", "d", " ", "t", "o", " ", "k", "n", "o", "w", "l",
      "e", "d", "g", "e", " ", "b", "a", "s", "e", ":", " ">>

\* (variant) the first five facts
first_facts(knowledge) ==
    SubSeq(knowledge, 1, IF Len(knowledge) > recent THEN recent ELSE Len(knowledge))

\* self.knowledge_base[-5:]
last_facts(knowledge) ==
    SubSeq(knowledge,
           IF Len(knowledge) > recent THEN Len(knowledge) - recent + 1 ELSE 1,
           Len(knowledge))

\* knowledge_search(query)
knowledge_search(knowledge, query) ==
    LET shown == last_facts(knowledge)
    IN  [knowledge |-> knowledge,
         res |-> IF knowledge # <<>>
                 THEN Return(join(<<"\n">>,
                                  [i \in 1..Len(shown) |->
                                      decimal(i) \o <<".", " ">> \o shown[i]]))
                 ELSE Return(no_knowledge)]

\* add_to_knowledge(fact)
add_to_knowledge(knowledge, fact) ==
    [knowledge |-> Append(knowledge, fact),
     res |-> Return(added_prefix \o fact)]

----------------------------------------------------------------------------
(* The message handler, src/main.py *)

title_length == 30

summarize_after == 10

\* message[:30] + "..." if len(message) > 30 else message
conversation_title(message) ==
    IF Len(message) > title_length
    THEN SubSeq(message, 1, title_length) \o <<".", ".", ".">>
    ELSE message

\* the roadmap_triggers of process_message
handler_roadmap_triggers ==
    << <<"r", "o", "a", "d", "m", "a", "p">>,
       <<"l", "e", "a", "r", "n", "i", "n", "g", " ", "p", "a", "t", "h">>,
       <<"s", "t", "e", "p", " ", "b", "y", " ", "s", "t", "e", "p">>,
       <<"p", "l", "a", "n">>,
       <<"t", "i", "m", "e", "l", "i", "n", "e">> >>

\* the test that shows the roadmap panel
shows_roadmap(message, ai_response) ==
    \/ any_trigger(handler_roadmap_triggers, message)
    \/ contains(<<"p", "h", "a", "s", "e">>, lower(ai_response))
    \/ contains(<<"s", "t", "e", "p">>, lower(ai_response))

\* process_message up to the call of the chat engine: the conversation is
\* created when none is current, the user message is stored and shown
user_turn(session, db, ts, local_now, message) ==
    LET created == create_conversation(db, ts, session.user_id,
                                       conversation_title(message))
        opened == session.current_conversation # NULL
        conversation == IF opened THEN session.current_conversation
                        ELSE created.res.val
        db1 == IF opened THEN db ELSE created.db
    IN  [session |-> [session EXCEPT
                        !.current_conversation = conversation,
                        !.messages =
                            Append(@, <<"user", message, local_now, NULL>>)],
         db |-> add_message(db1, ts, conversation, "user", message).db]

\* the try/except around chat_engine.generate_response: g is what the
\* engine did; when it raised, the fallback (constructed now if the session
\* has none, its model loaded or not) answers from the session's messages
ai_response(g, local, loaded, generation, message, messages) ==
    LET fallback == IF local.constructed THEN local
                    ELSE LocalModelFallback(loaded)
    IN  IF g.res.kind = "return"
        THEN [text |-> g.res.val, api_error |-> FALSE, local |-> local,
              fallback_invoked |-> FALSE]
        ELSE [text |-> local_generate_response(fallback, message, messages,
                                               generation).val,
              api_error |-> TRUE, local |-> fallback,
              fallback_invoked |-> TRUE]

\* process_message after the response: the roadmap panel, the assistant
\* message stored and shown
assistant_turn(session, db, ts, local_now, message, a) ==
    [session |-> [session EXCEPT
                    !.api_error = a.api_error,
                    !.show_roadmap = shows_roadmap(message, a.text),
                    !.roadmap_content =
                        IF shows_roadmap(message, a.text) THEN a.text ELSE @,
                    !.messages =
                        Append(@, <<"assistant", a.text, local_now, NULL>>)],
     db |-> add_message(db, ts, session.current_conversation, "assistant",
                        a.text).db]

\* role.upper()
upper_role(role) ==
    IF role = "user" THEN <<"U", "S", "E", "R">>
    ELSE <<"A", "S", "S", "I", "S", "T", "A", "N", "T">>

\* the message summarize_chat sends to the chat engine
summary_request(messages) ==
    <<"S", "u", "m", "m", "a", "r", "i", "z", "e", " ", "t", "h", "i", "s",
      " ", "c", "o", "n", "v", "e", "r", "s", "a", "t", "i", "o", "n", " ",
      "i", "n", " ", "3", "-", "4", " ", "b", "u", "l", "l", "e", "t", " ",
      "p", "o", "i", "n", "t", "s", ":", "\n">>
    \o join(<<"\n">>,
            [i \in 1..Len(messages) |->
                upper_role(messages[i][1]) \o <<":", " ">> \o messages[i][2]])

\* the condition under which process_message summarizes
auto_summarizes(session) ==
    session.user_prefs.auto_summarize
    /\ Len(session.messages) >= summarize_after

\* authenticate_user(username, password); password_ok: the hash matches
authenticate_user(db, username, password_ok) ==
    LET found == { u \in db.users : u.username = username }
    IN  IF found = {}
        THEN [success |-> FALSE, user_id |-> NULL, message |-> "User not found"]
        ELSE IF password_ok
            THEN [success |-> TRUE, user_id |-> (CHOOSE u \in found : TRUE).id,
                  message |-> "Login successful"]
        ELSE [success |-> FALSE, user_id |-> NULL,
              message |-> "Invalid password"]

----------------------------------------------------------------------------
(* The states before anything has run *)

\* init_session_state
SessionDefaults ==
    [authenticated |-> FALSE, user_id |-> NULL, session_token |-> NULL,
     current_conversation |-> NULL, messages |-> <<>>,
     chat_summary |-> NULL, user_prefs |-> default_preferences,
     show_roadmap |-> FALSE, roadmap_content |-> <<>>, api_error |-> FALSE]

NotConstructed == [constructed |-> FALSE]

NoOp == [op |-> "none"]

----------------------------------------------------------------------------
(* The state machine *)

NoCall ==
    [message |-> <<>>, invoked |-> <<>>, attempts |-> <<>>, sleeps |-> <<>>,
     rlc |-> [kind |-> "none", val |-> <<>>],
     res |-> [kind |-> "none", val |-> <<>>],
     before |-> [now |-> StartTime, last_api_call |-> 0, memory |-> <<>>,
                 last_invocation |-> -1]]

\* NeuroSyncAgent.__init__
AgentInit ==
    /\ now = StartTime
    /\ last_api_call = 0
    /\ memory = <<>>
    /\ last_invocation = -1
    /\ obs = NoCall
    /\ knowledge_base = <<>>

\* init_db of both stores, init_session_state: empty tables, the defaults
StoresInit ==
    /\ chats_db = EmptyChats
    /\ users_db = EmptyUsers
    /\ utc_now = 0
    /\ session_state = SessionDefaults
    /\ local_fallback = NotConstructed
    /\ last_op = NoOp

\* a process whose local time is UTC
Init == AgentInit /\ StoresInit /\ utc_offset = 0

\* one call of generate_response, the remote model behaving as o1 and o2;
\* no call starts after the horizon nor grows the memory beyond cap exchanges
Call(message, o1, o2, cap, horizon) ==
    /\ now <= horizon
    /\ \E g \in {generate_response(
                     [now |-> now, last_api_call |-> last_api_call,
                      memory |-> memory], message, o1, o2)} :
        /\ Len(g.memory) <= 2 * cap
        /\ now' = g.now
        /\ last_api_call' = g.last_api_call
        /\ memory' = g.memory
        /\ last_invocation' = g.attempts[Len(g.attempts)].at
        /\ obs' = [message |-> message, invoked |-> g.invoked,
                   attempts |-> g.attempts, sleeps |-> g.sleeps,
                   rlc |-> g.rlc, res |-> g.res,
                   before |-> [now |-> now, last_api_call |-> last_api_call,
                               memory |-> memory,
                               last_invocation |-> last_invocation]]
    /\ UNCHANGED <<knowledge_base, chats_db, users_db, utc_now, utc_offset,
                   session_state, local_fallback, last_op>>

GenerateResponse ==
    \E message \in Messages, o1 \in Outcomes, o2 \in Outcomes :
        Call(message, o1, o2, MaxExchanges, MaxTime)

\* a second passes between two calls
Tick ==
    /\ now < MaxTime
    /\ now' = now + 1
    /\ UNCHANGED <<last_api_call, memory, last_invocation, obs>>
    /\ UNCHANGED <<knowledge_base, chats_db, users_db, utc_now, utc_offset,
                   session_state, local_fallback, last_op>>

Next == GenerateResponse \/ Tick

Spec == Init /\ [][Next]_vars

----------------------------------------------------------------------------
(* The memory over a long conversation: general messages only, the remote  *)
(* model answering at once or failing at once with a plain error.          *)

GeneralMessages == { <<"h", "i">>, <<"H", "I">> }

PromptOutcomes ==
    { [kind |-> "ok", val |-> <<"o", "k">>, dur |-> 0],
      [kind |-> "err", val |-> <<"b", "o", "o", "m">>, dur |-> 0] }

Converse ==
    \E message \in GeneralMessages, o1 \in PromptOutcomes :
        Call(message, o1, o1, MaxWindowed,
             StartTime + MaxWindowed * min_call_interval)

NextMemory == Converse

SpecMemory == Init /\ [][NextMemory]_vars

----------------------------------------------------------------------------
(* The conversation store on its own *)

UserIds == {1, 2}

ConversationIds == 1..MaxConversations

Roles == {"user", "assistant"}

\* titles and contents
StoreTexts == { <<"h", "i">>, <<"p", "l", "a", "n">> }

\* search strings
Queries == { <<"P", "L">>, <<"h", "i">> }

\* the store variables after an operation that left db and returned res
Stored(op, args, r) ==
    /\ chats_db' = r.db
    /\ last_op' = [op |-> op, args |-> args, res |-> r.res]
    /\ UNCHANGED <<agent_vars, knowledge_base, users_db, utc_now, utc_offset,
                   session_state, local_fallback>>

CreateConversation ==
    \E user_id \in UserIds, title \in StoreTexts :
        /\ chats_db.conv_seq < MaxConversations
        /\ Stored("create_conversation", <<user_id, title>>,
                  create_conversation(chats_db, utc_now, user_id, title))

AddMessage ==
    \E conversation_id \in ConversationIds, role \in Roles,
       content \in StoreTexts :
        /\ chats_db.msg_seq < MaxMessages
        /\ Stored("add_message", <<conversation_id, role, content>>,
                  add_message(chats_db, utc_now, conversation_id, role,
                              content))

DeleteConversation ==
    \E conversation_id \in ConversationIds :
        /\ \E c \in chats_db.conversations : c.id = conversation_id
        /\ Stored("delete_conversation", <<conversation_id>>,
                  delete_conversation(chats_db, conversation_id))

GetConversationMessages ==
    \E conversation_id \in ConversationIds :
        \E rows \in get_conversation_messages(chats_db, conversation_id) :
            Stored("get_conversation_messages", <<conversation_id>>,
                   [db |-> chats_db, res |-> Return(rows)])

SearchConversations ==
    \E user_id \in UserIds, query \in Queries :
        \E rows \in search_conversations(chats_db, user_id, query) :
            Stored("search_conversations", <<user_id, query>>,
                   [db |-> chats_db, res |-> Return(rows)])

\* a second passes on the store's clock
SecondPasses ==
    /\ utc_now < MaxStoreTime
    /\ utc_now' = utc_now + 1
    /\ UNCHANGED <<agent_vars, knowledge_base, chats_db, users_db, utc_offset,
                   session_state, local_fallback, last_op>>

NextDb ==
    \/ CreateConversation
    \/ AddMessage
    \/ DeleteConversation
    \/ GetConversationMessages
    \/ SearchConversations
    \/ SecondPasses

SpecDb == Init /\ [][NextDb]_vars

----------------------------------------------------------------------------
(* The credential and session store on its own *)

OneHour == 60 * 60

\* the zones the process may run in: west of, at and east of UTC
UtcOffsets == {0 - OneHour, 0, OneHour}

\* the instants (UTC seconds) at which operations happen
Instants ==
    {0, OneHour, session_days * Day - OneHour, session_days * Day,
     session_days * Day + OneHour}

Usernames == {"ann", "bob"}

Tokens == 1..MaxTokens

\* the store variables after a credential-store operation
StoredUsers(op, args, fault, r) ==
    /\ users_db' = r.db
    /\ last_op' = [op |-> op, args |-> args, fault |-> fault, at |-> utc_now,
                   res |-> r.res]
    /\ UNCHANGED <<agent_vars, knowledge_base, chats_db, utc_now, utc_offset,
                   session_state, local_fallback>>

\* the store variables after a preferences operation
StoredPreferences(op, args, fault, r) ==
    /\ chats_db' = r.db
    /\ last_op' = [op |-> op, args |-> args, fault |-> fault, at |-> utc_now,
                   res |-> r.res]
    /\ UNCHANGED <<agent_vars, knowledge_base, users_db, utc_now, utc_offset,
                   session_state, local_fallback>>

RegisterUser ==
    \E username \in Usernames, fault \in BOOLEAN :
        /\ users_db.user_seq < MaxUsers
        /\ StoredUsers("register_user", <<username>>, fault,
                       register_user(users_db, username, fault))

GetUserInfo ==
    \E user_id \in UserIds, fault \in BOOLEAN :
        \E r \in {get_user_info(users_db, user_id, fault)} :
            StoredUsers("get_user_info", <<user_id>>, fault, r)

CreateSessionToken ==
    \E u \in users_db.users, micro \in {0, 1}, fault \in BOOLEAN :
        /\ users_db.token_seq < MaxTokens
        /\ StoredUsers("create_session_token", <<u.id>>, fault,
                       create_session_token(users_db, utc_now + utc_offset,
                                            micro, utc_now, u.id, fault))

VerifySessionToken ==
    \E token \in Tokens, fault \in BOOLEAN :
        \E r \in {verify_session_token(users_db, utc_now, token, fault)} :
            StoredUsers("verify_session_token", <<token>>, fault, r)

LogoutUser ==
    \E token \in Tokens, fault \in BOOLEAN :
        \E r \in {logout_user(users_db, token, fault)} :
            StoredUsers("logout_user", <<token>>, fault, r)

GetUserPreferences ==
    \E u \in users_db.users, fault \in BOOLEAN :
        StoredPreferences("get_user_preferences", <<u.id>>, fault,
                          get_user_preferences(chats_db, u.id, fault))

UpdateUserPreferences ==
    \E u \in users_db.users, auto_summarize \in BOOLEAN, fault \in BOOLEAN :
        StoredPreferences("update_user_preferences", <<u.id, auto_summarize>>,
                          fault,
                          update_user_preferences(chats_db, u.id,
                                                  auto_summarize, fault))

\* time passes, to a later instant
Pass ==
    \E t \in Instants :
        /\ t > utc_now
        /\ utc_now' = t
        /\ UNCHANGED <<agent_vars, knowledge_base, chats_db, users_db,
                       utc_offset, session_state, local_fallback, last_op>>

NextAuth ==
    \/ RegisterUser
    \/ GetUserInfo
    \/ CreateSessionToken
    \/ VerifySessionToken
    \/ LogoutUser
    \/ GetUserPreferences
    \/ UpdateUserPreferences
    \/ Pass

\* a process in any of the zones
InitAuth == AgentInit /\ StoresInit /\ utc_offset \in UtcOffsets

SpecAuth == InitAuth /\ [][NextAuth]_vars

----------------------------------------------------------------------------
(* The local fallback on its own *)

LocalMessages == { <<"h", "i">>, <<"p", "l", "a", "n">>, <<"c", "o", "d", "e">> }

\* entries of a history: triples, and the four-field entries that
\* process_message keeps in st.session_state.messages
Triple == <<"user", <<"h", "i">>, 0>>

Reply == <<"assistant", <<"o", "k">>, 0>>

Quadruple == <<"user", <<"h", "i">>, 0, NULL>>

Histories ==
    { <<>>, <<Triple>>, <<Triple, Reply>>, <<Triple, Reply, Triple, Reply>>,
      <<Quadruple>>, <<Triple, Quadruple>>,
      <<Quadruple, Triple, Reply, Triple>> }

\* what the pipeline does with a prompt
Generations ==
    { [kind |-> "ok", val |-> <<" ", "o", "k", "\n">>],
      [kind |-> "ok", val |-> <<>>],
      [kind |-> "err", val |-> <<"b", "o", "o", "m">>] }

Construct ==
    \E loaded \in BOOLEAN :
        /\ ~local_fallback.constructed
        /\ local_fallback' = LocalModelFallback(loaded)
        /\ UNCHANGED <<agent_vars, knowledge_base, chats_db, users_db,
                       utc_now, utc_offset, session_state, last_op>>

LocalGenerate ==
    \E message \in LocalMessages, history \in Histories,
       generation \in Generations :
        /\ local_fallback.constructed
        /\ last_op' =
              [op |-> "local_generate_response",
               args |-> <<message, history, generation>>,
               res |-> local_generate_response(local_fallback, message,
                                               history, generation)]
        /\ UNCHANGED <<agent_vars, knowledge_base, chats_db, users_db,
                       utc_now, utc_offset, session_state, local_fallback>>

NextLocal == Construct \/ LocalGenerate

SpecLocal == Init /\ [][NextLocal]_vars

----------------------------------------------------------------------------
(* The chat page: login, settings, the delete button, process_message *)

ChatMessages ==
    { <<"h", "i">>,
      <<"M", "a", "k", "e", " ", "a", " ", "s", "t", "e", "p", " ", "b",
        "y", " ", "s", "t", "e", "p", " ", "p", "l", "a", "n", " ", "f",
        "o", "r", " ", "J", "a", "v", "a">> }

Answered == [kind |-> "ok", val |-> <<"o", "k">>, dur |-> 0]

Failed == [kind |-> "err", val |-> <<"b", "o", "o", "m">>, dur |-> 0]

Limited == [kind |-> "err", val |-> <<"4", "2", "9">>, dur |-> 0]

\* what the remote model does with the invocation and with its retry
ChatOutcomes ==
    { <<Answered, Answered>>, <<Failed, Failed>>, <<Limited, Answered>>,
      <<Limited, Limited>> }

\* the login form, for the password of the user and a chat engine that
\* could be constructed
Login ==
    \E username \in Usernames, engine_ok \in {TRUE} :
        /\ ~session_state.authenticated
        /\ users_db.token_seq < MaxTokens
        /\ \E a \in {authenticate_user(users_db, username, TRUE)} :
            /\ a.success
            /\ \E t \in {create_session_token(users_db, utc_now + utc_offset,
                                              1, utc_now, a.user_id, FALSE)},
                  p \in {get_user_preferences(chats_db, a.user_id, FALSE)} :
                /\ users_db' = t.db
                /\ chats_db' = p.db
                /\ last_op' = [op |-> "login", args |-> <<username>>,
                               engine_ok |-> engine_ok]
                /\ IF engine_ok
                   THEN /\ session_state' =
                              [session_state EXCEPT
                                 !.authenticated = TRUE,
                                 !.user_id = a.user_id,
                                 !.session_token = t.res.val,
                                 !.user_prefs = p.res.val,
                                 !.api_error = FALSE]
                        /\ last_api_call' = 0
                        /\ memory' = <<>>
                        /\ knowledge_base' = <<>>
                        /\ now' = now + 1
                        /\ utc_now' = utc_now + 1
                   ELSE UNCHANGED <<session_state, last_api_call, memory,
                                    knowledge_base, now, utc_now>>
                /\ UNCHANGED <<last_invocation, obs, utc_offset,
                               local_fallback>>

\* the auto-summarize toggle of the settings
ToggleAutoSummarize ==
    /\ session_state.authenticated
    /\ session_state' =
          [session_state EXCEPT !.user_prefs.auto_summarize = ~@]
    /\ chats_db' =
          update_user_preferences(chats_db, session_state.user_id,
                                  ~session_state.user_prefs.auto_summarize,
                                  FALSE).db
    /\ last_op' = [op |-> "toggle_auto_summarize", args |-> <<>>]
    /\ UNCHANGED <<agent_vars, knowledge_base, users_db, utc_now, utc_offset,
                   local_fallback>>

\* the delete button of a conversation in the sidebar
DeleteButton ==
    \E c \in chats_db.conversations :
        /\ session_state.authenticated
        /\ c.user_id = session_state.user_id
        /\ chats_db' = delete_conversation(chats_db, c.id).db
        /\ last_op' = [op |-> "delete_button", args |-> <<c.id>>]
        /\ UNCHANGED <<agent_vars, knowledge_base, users_db, utc_now,
                       utc_offset, session_state, local_fallback>>

\* summarize_chat at the end of process_message, when it runs: the engine
\* states and summaries it may leave, from the engine state self
Summarized(self, session) ==
    IF auto_summarizes(session)
    THEN { [g |-> g,
            chat_summary |-> IF g.res.kind = "return" THEN g.res.val
                             ELSE session.chat_summary] :
             g \in { generate_response(self,
                                       summary_request(session.messages),
                                       o[1], o[2]) : o \in ChatOutcomes } }
    ELSE { [g |-> self, chat_summary |-> session.chat_summary] }

\* the answers the try/except of process_message may give
Responses(g, message, messages) ==
    IF g.res.kind = "return"
    THEN { ai_response(g, local_fallback, FALSE, Answered, message, messages) }
    ELSE { ai_response(g, local_fallback, loaded, generation, message,
                       messages) :
             loaded \in BOOLEAN, generation \in Generations }

\* process_message(message)
ProcessMessage ==
    \E message \in ChatMessages, o \in ChatOutcomes :
        /\ session_state.authenticated
        /\ chats_db.msg_seq + 2 <= 2 * MaxChatExchanges
        /\ \E u \in {user_turn(session_state, chats_db, utc_now,
                               utc_now + utc_offset, message)},
              g \in {generate_response([now |-> now,
                                        last_api_call |-> last_api_call,
                                        memory |-> memory],
                                       message, o[1], o[2])} :
            \E a \in Responses(g, message, u.session.messages) :
            \E v \in {assistant_turn(u.session, u.db,
                                     utc_now + (g.now - now),
                                     utc_now + utc_offset + (g.now - now),
                                     message, a)} :
            \E s \in Summarized([now |-> g.now,
                                 last_api_call |-> g.last_api_call,
                                 memory |-> g.memory], v.session) :
                /\ session_state' =
                      [v.session EXCEPT !.chat_summary = s.chat_summary]
                /\ chats_db' = v.db
                /\ local_fallback' = a.local
                /\ now' = s.g.now
                /\ last_api_call' = s.g.last_api_call
                /\ memory' = s.g.memory
                /\ utc_now' = utc_now + (s.g.now - now)
                /\ last_op' =
                      [op |-> "process_message", args |-> <<message, o>>,
                       rlc |-> g.rlc, res |-> g.res, response |-> a.text,
                       fallback_invoked |-> a.fallback_invoked,
                       summarized |-> auto_summarizes(v.session)]
                /\ UNCHANGED <<last_invocation, obs, knowledge_base,
                               users_db, utc_offset>>

\* load_conversation(conversation_id), from a conversation of the sidebar
LoadConversation ==
    \E c \in chats_db.conversations :
        /\ session_state.authenticated
        /\ c.user_id = session_state.user_id
        /\ \E rows \in get_conversation_messages(chats_db, c.id) :
            session_state' =
                [session_state EXCEPT
                   !.current_conversation = c.id,
                   !.messages =
                       [n \in 1..Len(rows) |->
                           <<rows[n].role, rows[n].content,
                             rows[n].timestamp, rows[n].metadata>>]]
        /\ last_op' = [op |-> "load_conversation", args |-> <<c.id>>]
        /\ UNCHANGED <<agent_vars, knowledge_base, chats_db, users_db,
                       utc_now, utc_offset, local_fallback>>

\* new_conversation()
NewConversation ==
    /\ session_state.authenticated
    /\ session_state' =
          [session_state EXCEPT
             !.current_conversation = NULL,
             !.messages = <<>>,
             !.chat_summary = NULL,
             !.show_roadmap = FALSE,
             !.roadmap_content = <<>>]
    /\ last_op' = [op |-> "new_conversation", args |-> <<>>]
    /\ UNCHANGED <<agent_vars, knowledge_base, chats_db, users_db, utc_now,
                   utc_offset, local_fallback>>

\* clear_chat()
ClearChat ==
    /\ session_state.authenticated
    /\ session_state' =
          [session_state EXCEPT
             !.messages = <<>>,
             !.chat_summary = NULL,
             !.show_roadmap = FALSE,
             !.roadmap_content = <<>>]
    /\ last_op' = [op |-> "clear_chat", args |-> <<>>]
    /\ UNCHANGED <<agent_vars, knowledge_base, chats_db, users_db, utc_now,
                   utc_offset, local_fallback>>

\* the logout button: logout_user(session_token), then session_state.clear(),
\* which drops the chat engine and the fallback with the other keys; the
\* next run of main restores the defaults.  When logout_user raises, the
\* run ends there.
LogoutButton ==
    \E fault \in BOOLEAN :
        /\ session_state.authenticated
        /\ \E r \in {logout_user(users_db, session_state.session_token,
                                   fault)} :
            /\ users_db' = r.db
            /\ last_op' = [op |-> "logout_button",
                           args |-> <<session_state.session_token>>,
                           fault |-> fault, res |-> r.res]
            /\ IF r.res.kind = "return"
               THEN /\ session_state' = SessionDefaults
                    /\ local_fallback' = NotConstructed
                    /\ last_api_call' = 0
                    /\ memory' = <<>>
                    /\ knowledge_base' = <<>>
               ELSE UNCHANGED <<session_state, local_fallback, last_api_call,
                                memory, knowledge_base>>
        /\ UNCHANGED <<now, last_invocation, obs, chats_db, utc_now,
                       utc_offset>>

NextChat ==
    \/ RegisterUser
    \/ Login
    \/ ToggleAutoSummarize
    \/ DeleteButton
    \/ LoadConversation
    \/ NewConversation
    \/ ClearChat
    \/ LogoutButton
    \/ ProcessMessage

SpecChat == Init /\ [][NextChat]_vars

----------------------------------------------------------------------------
(* The session tokens on their own: issued, verified and withdrawn while   *)
(* time passes                                                             *)

NextTokens ==
    \/ RegisterUser
    \/ CreateSessionToken
    \/ VerifySessionToken
    \/ LogoutUser
    \/ Pass

SpecTokens == InitAuth /\ [][NextTokens]_vars

----------------------------------------------------------------------------
(* The browser session: it logs in and out while time passes               *)

NextSession ==
    \/ RegisterUser
    \/ Login
    \/ LogoutButton
    \/ Pass

SpecSession == InitAuth /\ [][NextSession]_vars

----------------------------------------------------------------------------
(* The calculator and the knowledge base on their own *)

CalculatorQueries ==
    { <<"2", "+", "2">>,
      <<"2", "+">>,
      <<"D", "R", "O", "P", " ", "T", "A", "B", "L", "E", ";", "1", "+",
        "1">>,
      <<"1", "/", "0">>,
      <<>>,
      <<"a", "b", "c">>,
      <<"(", "1", "+", "2", ")", "*", "3">>,
      <<"w", "h", "a", "t", " ", "i", "s", " ", "1", "2", "*", "3", "?">>,
      <<"0", "1", "+", "1">>,
      <<"2", " ", "3">>,
      <<"-", "(", "2", ")">>,
      <<"(", "1", ")", "(", "2", ")">>,
      <<"1", "0", "-", "4", "/", "2">>,
      <<"1", " ", "/", " ", "(", "2", "-", "2", ")", " ", "+">> }

Facts == { <<"a">>, <<"b", "c">> }

KnowledgeQueries == { <<>>, <<"b", "c">> }

\* the variables after a tool of the agent ran
ToolRan(op, args, r) ==
    /\ knowledge_base' = r.knowledge
    /\ last_op' = [op |-> op, args |-> args, res |-> r.res,
                   before |-> knowledge_base]
    /\ UNCHANGED <<agent_vars, chats_db, users_db, utc_now, utc_offset,
                   session_state, local_fallback>>

Calculator ==
    \E query \in CalculatorQueries :
        \E r \in {calculator(query)} :
            ToolRan("calculator", <<query>>,
                    [knowledge |-> knowledge_base, res |-> r])

AddKnowledge ==
    \E fact \in Facts :
        /\ Len(knowledge_base) < MaxFacts
        /\ ToolRan("add_to_knowledge", <<fact>>,
                   add_to_knowledge(knowledge_base, fact))

KnowledgeSearch ==
    \E query \in KnowledgeQueries :
        \E r \in {knowledge_search(knowledge_base, query)} :
            ToolRan("knowledge_search", <<query>>, r)

NextTools == Calculator \/ AddKnowledge \/ KnowledgeSearch

SpecTools == Init /\ [][NextTools]_vars

----------------------------------------------------------------------------
(* Properties *)

\* a generate_response call has been made
Called == obs.res.kind # "none"

\* the error text signals a rate-limit or quota condition
SignalsRateLimit(e) ==
    \/ \E i \in 1..(Len(e) - 2) : <<e[i], e[i + 1], e[i + 2]>> = <<"4", "2", "9">>
    \/ contains(<<"q", "u", "o", "t", "a">>, lower(e))
    \/ contains(<<"r", "a", "t", "e">>, lower(e))

HasTrigger(triggers, message) ==
    \E i \in 1..Len(triggers) : contains(triggers[i], lower(message))

Min(a, b) == IF a < b THEN a ELSE b

FirstAttempt == obs.attempts[1]

LastAttempt == obs.attempts[Len(obs.attempts)]

\* the first invocation raised an error that signals rate-limit/quota
FirstRateLimited ==
    /\ Called
    /\ FirstAttempt.outcome.kind = "err"
    /\ SignalsRateLimit(FirstAttempt.outcome.val)

\* the first invocation raised an error that does not
FirstFailedOtherwise ==
    /\ Called
    /\ FirstAttempt.outcome.kind = "err"
    /\ ~SignalsRateLimit(FirstAttempt.outcome.val)

RetryFailed == Len(obs.attempts) = 2 /\ obs.attempts[2].outcome.kind = "err"

Route == obs.invoked[1].fn

ResponseTexts ==
    Answers \cup {quota_message, generic_message, roadmap_failure, code_failure}

\* C1: whatever the remote model does on each attempt, generate_response
\* returns a string and never raises.
C1_Total ==
    Called => obs.res.kind = "return" /\ obs.res.val \in ResponseTexts

\* C1 witness: the rate-limited caller raised on the general route and a
\* string came back.
C1_Witness ==
    /\ Called
    /\ Route = agent_run
    /\ obs.rlc.kind = "raise"
    /\ obs.res.kind = "return"

\* C2: each call invokes exactly one function, with the raw message: the
\* Roadmap Generator when the lowercased message holds a roadmap trigger
\* (also when it holds a code trigger too), else the Code Helper when it
\* holds a code trigger, else the general agent; and a call whose message
\* differs from the previous call's message only in letter case takes the
\* same route as that call.
C2_Routing ==
    [][obs' # obs =>
        /\ obs'.invoked =
              << [fn |-> IF HasTrigger(roadmap_triggers, obs'.message)
                             THEN "Roadmap Generator"
                         ELSE IF HasTrigger(code_triggers, obs'.message)
                             THEN "Code Helper"
                         ELSE agent_run,
                  input |-> obs'.message] >>
        /\ (Called /\ lower(obs.message) = lower(obs'.message)
                => obs'.invoked[1].fn = obs.invoked[1].fn)]_vars

\* C2 witness: a message with a trigger of each list went to the Roadmap
\* Generator, which got the raw message.
C2_Witness ==
    /\ Called
    /\ HasTrigger(roadmap_triggers, obs.message)
    /\ HasTrigger(code_triggers, obs.message)
    /\ obs.invoked = <<[fn |-> "Roadmap Generator", input |-> obs.message]>>

\* C3 (as claimed): after every generate_response call the memory is the
\* memory before the call with the user message and the returned response
\* appended.
C3_TurnAppended ==
    Called =>
        memory = obs.before.memory
                    \o << [type |-> "human", content |-> obs.message],
                          [type |-> "ai", content |-> obs.res.val] >>

C5_RetryOnce ==
    /\ Called => Len(obs.attempts) <= 2
    /\ FirstRateLimited =>
        /\ Len(obs.attempts) = 2
        /\ obs.attempts[2].at =
              FirstAttempt.at + FirstAttempt.outcome.dur + 5
        /\ \E i \in 1..Len(obs.sleeps) :
              /\ obs.sleeps[i].secs = 5
              /\ obs.sleeps[i].at = FirstAttempt.at + FirstAttempt.outcome.dur
        /\ (obs.attempts[2].outcome.kind = "err"
                => obs.rlc = Raise(obs.attempts[2].outcome.val))

\* C5 witness: a rate-limit error, then a retry that raised another error.
C5_Witness ==
    /\ FirstRateLimited
    /\ RetryFailed
    /\ obs.attempts[2].outcome.val # FirstAttempt.outcome.val

\* C6: when the first invocation raises an error that does not signal a
\* rate-limit/quota condition, the function is invoked once, nothing is
\* slept after the invocation, and that error propagates.
C6_NoRetry ==
    FirstFailedOtherwise =>
        /\ Len(obs.attempts) = 1
        /\ \A i \in 1..Len(obs.sleeps) : obs.sleeps[i].at < FirstAttempt.at
        /\ obs.rlc = Raise(FirstAttempt.outcome.val)

\* C6 witness: a plain error, raised after the throttle had slept.
C6_Witness ==
    /\ FirstFailedOtherwise
    /\ Len(obs.sleeps) = 1
    /\ obs.rlc.kind = "raise"

\* C7 (as claimed): two successive invocations of the wrapped operation
\* are at least min_call_interval apart.
C7_MinInterval ==
    /\ Called /\ obs.before.last_invocation # -1
        => FirstAttempt.at - obs.before.last_invocation >= min_call_interval
    /\ Called /\ Len(obs.attempts) = 2
        => obs.attempts[2].at - obs.attempts[1].at >= min_call_interval

\* C8 (as claimed): after a call that succeeded, and after a call that was
\* retried, last_api_call is the time the last invocation ended.
C8_Stamped ==
    Called /\ (obs.rlc.kind = "return" \/ Len(obs.attempts) = 2)
        => last_api_call = LastAttempt.at + LastAttempt.outcome.dur

\* C9: on the general route, an error that escapes the rate-limited
\* caller is answered with the "temporarily unavailable" message when its
\* text signals quota/rate-limit and with the generic failure message
\* otherwise, and the two messages differ.
C9_Classified ==
    Called /\ Route = agent_run /\ obs.rlc.kind = "raise" =>
        /\ obs.res = Return(IF SignalsRateLimit(obs.rlc.val)
                            THEN quota_message ELSE generic_message)
        /\ quota_message # generic_message

\* C9 witness: a retry on the general route that failed with a rate-limit
\* error.
C9_Witness ==
    /\ Called
    /\ Route = agent_run
    /\ obs.rlc.kind = "raise"
    /\ SignalsRateLimit(obs.rlc.val)
    /\ obs.res.val = quota_message

\* C10 (as claimed): on every route, a rate-limit error that the retry
\* meets again is answered with the "temporarily unavailable" message.
C10_Surfaced ==
    /\ FirstRateLimited
    /\ RetryFailed
    /\ SignalsRateLimit(obs.attempts[2].outcome.val)
    => obs.res = Return(quota_message)

\* C10 (amended): on every route a rate-limit error of the first
\* invocation is retried once after the 5 s cooldown; when the retry fails
\* too, the general route answers with the "temporarily unavailable"
\* message if the retry's error signals quota/rate-limit and with the
\* generic failure message otherwise, and the direct routes answer with
\* the tool's own fixed failure string.
C10_SurfacedByRoute ==
    FirstRateLimited =>
        /\ Len(obs.attempts) = 2
        /\ obs.attempts[2].at =
              FirstAttempt.at + FirstAttempt.outcome.dur + cooldown
        /\ (RetryFailed =>
              obs.res =
                Return(IF Route = "Roadmap Generator" THEN roadmap_failure
                       ELSE IF Route = "Code Helper" THEN code_failure
                       ELSE IF SignalsRateLimit(obs.attempts[2].outcome.val)
                           THEN quota_message
                       ELSE generic_message))

\* C10 witness: a direct route whose retry met the rate limit again.
C10_Witness ==
    /\ FirstRateLimited
    /\ RetryFailed
    /\ SignalsRateLimit(obs.attempts[2].outcome.val)
    /\ Route = "Code Helper"
    /\ obs.res = Return(code_failure)

----------------------------------------------------------------------------
(* Properties of the conversation store *)

\* the stored messages of a conversation, in the order they were added
Added(conversation_id) ==
    SelectSeq(chats_db.messages,
              LAMBDA m : m.conversation_id = conversation_id)

\* role and content of each row of a sequence of rows
RoleAndContent(rows) ==
    [n \in 1..Len(rows) |-> <<rows[n].role, rows[n].content>>]

\* t contains q, without regard to case
ContainsText(q, t) == contains(lower(q), lower(t))

\* C14: every stored message references a conversation that exists.
C14_MessagesReferenceConversation ==
    \A i \in 1..Len(chats_db.messages) :
        \E c \in chats_db.conversations :
            c.id = chats_db.messages[i].conversation_id

C16_SearchExact ==
    last_op.op = "search_conversations" =>
        LET user_id == last_op.args[1]
            query == last_op.args[2]
            rows == last_op.res.val
            matching ==
                { c \in chats_db.conversations :
                    /\ c.user_id = user_id
                    /\ \/ ContainsText(query, c.title)
                       \/ \E i \in 1..Len(chats_db.messages) :
                            /\ chats_db.messages[i].conversation_id = c.id
                            /\ ContainsText(query,
                                            chats_db.messages[i].content) }
        IN  /\ { rows[n].id : n \in 1..Len(rows) } = { c.id : c \in matching }
            /\ Len(rows) = Cardinality(matching)

----------------------------------------------------------------------------
(* Properties of the credential and session store *)

\* the session rows with this token
RowsOf(token) == { s \in users_db.user_sessions : s.session_token = token }

\* the instant t is before the instant a timestamp text denotes
Before(t, text) ==
    \/ t < text[1]
    \/ t = text[1] /\ Len(text) > 1

\* C12: verify_session_token(token) returns a user id if and only if a
\* session row with that token exists and the current time (the store's)
\* is before the row's expires_at, and the id is that row's user id;
\* otherwise it returns no user.
C12_ValidIffUnexpired ==
    last_op.op = "verify_session_token" =>
        LET live == { s \in RowsOf(last_op.args[1]) :
                        Before(last_op.at, s.expires_at) }
        IN  /\ last_op.res.kind = "return"
            /\ (last_op.res.val # NULL) <=> (live # {})
            /\ \A s \in live : last_op.res.val = s.user_id

\* C13: a token issued at time t and not logged out verifies to its user at
\* every time before t + 7 days and to no user at every time from t + 7
\* days on (stated for the calls the store answered; within the second at
\* t + 7 days the fraction of the issuing clock may decide).
C13_SevenDays ==
    (last_op.op = "verify_session_token" /\ ~last_op.fault) =>
        \A s \in RowsOf(last_op.args[1]) :
            LET end == s.created_at + session_days * Day
            IN  /\ last_op.at < end => last_op.res.val = s.user_id
                /\ last_op.at > end => last_op.res.val = NULL
                /\ (last_op.at = end /\ Len(s.expires_at) = 1)
                      => last_op.res.val = NULL

\* the operations of the two stores
StoreOperations ==
    {"register_user", "get_user_info", "create_session_token",
     "verify_session_token", "logout_user", "get_user_preferences",
     "update_user_preferences"}

\* the result tells its caller that the operation failed
ExplicitFailure(op, res) ==
    \/ res.kind = "raise"
    \/ op = "register_user" /\ ~res.val.success

\* C17: every store operation that hits a persistence error reports it as
\* an explicit failure, a raised error or a failure result.
C17_ExplicitFailure ==
    (last_op.op \in StoreOperations /\ last_op.fault) =>
        ExplicitFailure(last_op.op, last_op.res)

----------------------------------------------------------------------------
(* Properties of the local fallback *)

\* the latest operation was a call of the local fallback
LocalCalled == last_op.op = "local_generate_response"

\* the entries of the history that the prompt is built from
Shown == last_three(last_op.args[2])

\* some entry the prompt is built from is not a triple
PromptFails == \E i \in 1..Len(Shown) : Len(Shown[i]) # 3

\* the text is the error string around some failure description
IsLocalError(text) ==
    /\ Len(text) >= Len(local_error_prefix) + Len(local_error_suffix)
    /\ SubSeq(text, 1, Len(local_error_prefix)) = local_error_prefix
    /\ SubSeq(text, Len(text) - Len(local_error_suffix) + 1, Len(text))
          = local_error_suffix

\* C20: LocalModelFallback.generate_response never raises; without a local
\* model it returns the fixed unavailability string; with one, when
\* building the prompt or generating fails, it returns the error string
\* embedding the failure description.
C20_LocalNeverRaises ==
    LocalCalled =>
        /\ last_op.res.kind = "return"
        /\ ~local_fallback.has_local_model
              => last_op.res.val = unavailable_message
        /\ (local_fallback.has_local_model /\ PromptFails)
              => IsLocalError(last_op.res.val)
        /\ (local_fallback.has_local_model /\ ~PromptFails
              /\ last_op.args[3].kind = "err")
              => last_op.res.val =
                    local_error_prefix \o last_op.args[3].val
                    \o local_error_suffix

\* C20 witness: a loaded model given a history of four-field entries
\* answered with the error string embedding the unpacking error.
C20_Witness ==
    /\ LocalCalled
    /\ local_fallback.has_local_model
    /\ last_op.args[2] = <<Quadruple>>
    /\ last_op.res =
          Return(local_error_prefix \o unpack_error(Quadruple)
                 \o local_error_suffix)

----------------------------------------------------------------------------
(* Properties of the message handler *)

\* the latest operation was process_message, and the remote call of its
\* primary path raised (after the retry, when there was one)
PrimaryPathFailed ==
    /\ last_op.op = "process_message"
    /\ last_op.rlc.kind = "raise"

\* C11: when the remote call of the primary path fails while a user
\* message is handled, the local fallback produces the response and
\* api_error is set.
C11_FallbackOnFailure ==
    PrimaryPathFailed =>
        /\ last_op.fallback_invoked
        /\ session_state.api_error

----------------------------------------------------------------------------
(* Properties of the calculator and the knowledge base *)

\* the queries whose kept characters are no expression (malformed or
\* empty), or divide by zero, or call a number
FailingQueries ==
    { <<"2", "+">>,
      <<"1", "/", "0">>,
      <<>>,
      <<"a", "b", "c">>,
      <<"0", "1", "+", "1">>,
      <<"2", " ", "3">>,
      <<"(", "1", ")", "(", "2", ")">>,
      <<"1", " ", "/", " ", "(", "2", "-", "2", ")", " ", "+">> }

\* the other queries, each with the text of the value of its kept
\* characters
EvaluatedQueries ==
    { <<<<"2", "+", "2">>,
        <<"4">>>>,
      <<<<"D", "R", "O", "P", " ", "T", "A", "B", "L", "E", ";", "1", "+",
           "1">>,
        <<"2">>>>,
      <<<<"(", "1", "+", "2", ")", "*", "3">>,
        <<"9">>>>,
      <<<<"w", "h", "a", "t", " ", "i", "s", " ", "1", "2", "*", "3", "?">>,
        <<"3", "6">>>>,
      <<<<"-", "(", "2", ")">>,
        <<"-", "2">>>>,
      <<<<"1", "0", "-", "4", "/", "2">>,
        <<"8", ".", "0">>>> }

CalculatorCalled == last_op.op = "calculator"

\* C19: the calculator never raises; it evaluates the query with every
\* character outside 0-9 + - * / ( ) . and space removed ("DROP TABLE;1+1"
\* gives "2"), and when that evaluation fails it returns the fixed failure
\* string.
C19_CalculatorNeverRaises ==
    CalculatorCalled =>
        /\ last_op.res.kind = "return"
        /\ last_op.args[1] \in FailingQueries
              => last_op.res.val = calculator_failure
        /\ \A e \in EvaluatedQueries :
              last_op.args[1] = e[1] => last_op.res.val = e[2]

\* C19 witness: the calculator answered "DROP TABLE;1+1" with "2".
C19_Witness ==
    /\ CalculatorCalled
    /\ last_op.args[1] =
          <<"D", "R", "O", "P", " ", "T", "A", "B", "L", "E", ";", "1", "+",
            "1">>
    /\ last_op.res = Return(<<"2">>)

\* the listing of the facts F: the last min(5, n) of them in their order,
\* numbered from 1, one per line
Listing(F) ==
    LET n == Len(F)
        m == IF n < 5 THEN n ELSE 5
    IN  join(<<"\n">>,
             [i \in 1..m |-> decimal(i) \o <<".", " ">> \o F[n - m + i]])

\* C18: add_to_knowledge appends its fact; knowledge_search returns, for
\* every query, the last min(5, n) facts in insertion order numbered from
\* 1, or the no-knowledge string when there is no fact, and leaves the
\* facts unchanged.
C18_LastFiveNumbered ==
    /\ last_op.op = "add_to_knowledge"
          => knowledge_base = Append(last_op.before, last_op.args[1])
    /\ last_op.op = "knowledge_search"
          => /\ knowledge_base = last_op.before
             /\ last_op.res =
                   Return(IF knowledge_base = <<>> THEN no_knowledge
                          ELSE Listing(knowledge_base))

\* C18 witness: after seven facts the search lists the third to the
\* seventh, numbered 1 to 5.
C18_Witness ==
    /\ last_op.op = "knowledge_search"
    /\ knowledge_base =
          << <<"a">>, <<"a">>, <<"b", "c">>, <<"a">>, <<"b", "c">>,
             <<"b", "c">>, <<"a">> >>
    /\ last_op.res.val =
          <<"1", ".", " ", "b", "c", "\n", "2", ".", " ", "a", "\n",
            "3", ".", " ", "b", "c", "\n", "4", ".", " ", "b", "c", "\n",
            "5", ".", " ", "a">>

----------------------------------------------------------------------------
(* Properties of the chat page *)

\* the roles of the messages stored for a conversation, in the order of
\* their insertion
StoredRoles(db, conversation_id) ==
    LET stored == SelectSeq(db.messages,
                            LAMBDA m : m.conversation_id = conversation_id)
    IN  [n \in 1..Len(stored) |-> stored[n].role]

\* user, assistant, user, assistant, ...
Alternate(roles) ==
    \A n \in 1..Len(roles) :
        roles[n] = IF n % 2 = 1 THEN "user" ELSE "assistant"

\* the conversation the session has open is one of the user's in the store
OpenConversation(session, db) ==
    \E c \in db.conversations :
        /\ c.id = session.current_conversation
        /\ c.user_id = session.user_id

\* C21: each process_message call persists exactly two messages to the
\* current conversation, the user message (stored before the response is
\* generated) and then the assistant response (stored after it); a
\* conversation is created first when none is current; so the stored roles
\* of every conversation alternate user, assistant.
C21_TwoMessagesInOrder ==
    [][(last_op'.op = "process_message"
        /\ chats_db'.msg_seq # chats_db.msg_seq) =>
          LET before == chats_db.messages
              after == chats_db'.messages
              current == session_state'.current_conversation
              first == after[Len(before) + 1]
              second == after[Len(before) + 2]
          IN  /\ Len(after) = Len(before) + 2
              /\ SubSeq(after, 1, Len(before)) = before
              /\ first.role = "user"
              /\ first.content = last_op'.args[1]
              /\ second.role = "assistant"
              /\ second.content = last_op'.response
              /\ first.id < second.id
              /\ first.timestamp <= second.timestamp
              /\ first.conversation_id = current
              /\ second.conversation_id = current
              /\ OpenConversation(session_state', chats_db')
              /\ IF session_state.current_conversation = NULL
                 THEN \A c \in chats_db.conversations : c.id # current
                 ELSE /\ current = session_state.current_conversation
                      /\ chats_db'.conv_seq = chats_db.conv_seq
              /\ \A m \in 1..Len(after) :
                    Alternate(StoredRoles(chats_db', after[m].conversation_id))
      ]_vars

----------------------------------------------------------------------------
(* Properties of logging out *)

\* the token has been issued
Issued(token) == token <= users_db.token_seq

\* what verify_session_token(token) returns at the instant t
Verified(db, t, token) == verify_session_token(db, t, token, FALSE).res.val

\* the token verifies to no user at any instant, whether or not the store
\* answers
NeverVerifies(db, token) ==
    \A t \in Instants, fault \in BOOLEAN :
        verify_session_token(db, t, token, fault).res.val = NULL

\* a step after which logout_user(token) is the latest operation, and it
\* returned
LoggedOut(token) ==
    /\ last_op'.op = "logout_user"
    /\ last_op'.args[1] = token
    /\ last_op'.res.kind = "return"

----------------------------------------------------------------------------
(* Properties of the authenticated session *)

\* C23: in every state in which the app treats the user as authenticated
\* (session_state.authenticated is true, so main serves the chat page),
\* session_state.session_token is a token verify_session_token accepts: it
\* is in the session store and has not expired.
C23_AuthenticatedTokenValid ==
    session_state.authenticated =>
        Verified(users_db, utc_now, session_state.session_token)
            = session_state.user_id

----------------------------------------------------------------------------
(* Properties of the memory across conversations *)

\* the turn of the memory is a message stored for the conversation
TurnOf(turn, db, conversation_id) ==
    \E n \in 1..Len(db.messages) :
        /\ db.messages[n].conversation_id = conversation_id
        /\ db.messages[n].content = turn.content
        /\ db.messages[n].role =
              IF turn.type = "human" THEN "user" ELSE "assistant"

\* C24: the agent's ConversationMemory only ever holds turns of the
\* conversation that is currently open: the context supplied to the general
\* agent contains no turn of a conversation that was open before
\* new_conversation, clear_chat or load_conversation (with no conversation
\* open, it contains no turn at all).
C24_MemoryOfOpenConversation ==
    session_state.authenticated =>
        \A n \in 1..Len(get_conversation_history) :
            TurnOf(get_conversation_history[n], chats_db,
                   session_state.current_conversation)

====
